---- MODULE Spec2Model ----
(***************************************************************************)
(* A model of the two exchange clients of this repository:                 *)
(*   - the Gemini client            (src/index.ts)                         *)
(*   - the Bittrex raw agent and the typed Bittrex client built on it      *)
(*                                  (src/unnamed/part_000)                 *)
(* JavaScript values are tagged records, objects are ordered sequences of  *)
(* <<key, value>> pairs (insertion order, as JavaScript keeps it), strings *)
(* are TLA+ strings.  An endpoint call runs synchronously up to its        *)
(* `await axios(...)`; the transport's answer is a later step.             *)
(***************************************************************************)
EXTENDS Integers, Sequences, FiniteSets, TLC

\* The largest value Date.now() takes in a behaviour (the clock starts at 1).
MaxClock == 2

-----------------------------------------------------------------------------
(* JavaScript values *)

Undefined == [t |-> "undefined"]
Null      == [t |-> "null"]
Str(s)    == [t |-> "string", v |-> s]
Num(n)    == [t |-> "number", v |-> n]
Bool(b)   == [t |-> "boolean", v |-> b]
Obj(ps)   == [t |-> "object", v |-> ps]
\* An Error instance thrown by the runtime, e.g. reading a property of undefined.
TypeError == [t |-> "error", v |-> "TypeError"]

\* JavaScript truthiness, as used by `!x`, `x ? a : b` and `x || y`.
Truthy(x) ==
    CASE x.t = "undefined" -> FALSE
      [] x.t = "null"      -> FALSE
      [] x.t = "string"    -> x.v # ""
      [] x.t = "number"    -> x.v # 0
      [] x.t = "boolean"   -> x.v
      [] OTHER             -> TRUE

Nullish(x) == x.t \in {"undefined", "null"}

\* The keys of an object, in order.
Keys(o) == IF o.t = "object" THEN [i \in 1..Len(o.v) |-> o.v[i][1]] ELSE <<>>

KeySet(o) == {Keys(o)[i] : i \in 1..Len(Keys(o))}

Has(o, k) == k \in KeySet(o)

\* o.k for a non-nullish o: the own property, or undefined.
Get(o, k) ==
    IF Has(o, k)
    THEN LET i == CHOOSE j \in 1..Len(o.v) : o.v[j][1] = k IN o.v[i][2]
    ELSE Undefined

\* Assignment of one property in an object literal: an existing key keeps its
\* place and takes the new value, a new key is appended.
PutPair(ps, p) ==
    IF \E j \in 1..Len(ps) : ps[j][1] = p[1]
    THEN [j \in 1..Len(ps) |-> IF ps[j][1] = p[1] THEN p ELSE ps[j]]
    ELSE Append(ps, p)

RECURSIVE PutAll(_, _)
PutAll(ps, qs) == IF qs = <<>> THEN ps ELSE PutAll(PutPair(ps, Head(qs)), Tail(qs))

\* { ...a, ...b }: spreading undefined or null contributes nothing.
Spread(a, b) ==
    Obj(PutAll(IF a.t = "object" THEN a.v ELSE <<>>,
               IF b.t = "object" THEN b.v ELSE <<>>))

\* `${x}` in a template string.
Template(x) ==
    CASE x.t = "string"    -> x.v
      [] x.t = "number"    -> ToString(x.v)
      [] x.t = "undefined" -> "undefined"
      [] x.t = "null"      -> "null"
      [] x.t = "boolean"   -> IF x.v THEN "true" ELSE "false"
      [] OTHER             -> "[object Object]"

-----------------------------------------------------------------------------
(* The collaborators: JSON, base64, HMAC, query-string encoding *)

RECURSIVE JsonText(_), JsonMembers(_)
\* The text JSON.stringify gives for a defined value.
JsonText(x) ==
    CASE x.t = "string"  -> "\"" \o x.v \o "\""
      [] x.t = "number"  -> ToString(x.v)
      [] x.t = "boolean" -> IF x.v THEN "true" ELSE "false"
      [] x.t = "object"  -> "{" \o JsonMembers(x.v) \o "}"
      [] OTHER           -> "null"

\* Members with an undefined value are left out.
JsonMembers(ps) ==
    IF ps = <<>> THEN ""
    ELSE IF Head(ps)[2].t = "undefined" THEN JsonMembers(Tail(ps))
    ELSE LET rest == JsonMembers(Tail(ps))
         IN  "\"" \o Head(ps)[1] \o "\":" \o JsonText(Head(ps)[2])
                 \o (IF rest = "" THEN "" ELSE "," \o rest)

\* JSON.stringify(x): undefined for undefined, else a string.
JSONstringify(x) == IF x.t = "undefined" THEN Undefined ELSE Str(JsonText(x))

\* new Buffer(text).toString('base64'): an injective encoding of the text.
Base64(text) == "base64(" \o text \o ")"

\* crypto.createHmac(alg, secret).update(msg).digest('hex'): a keyed digest,
\* injective in (alg, secret, msg).
Hmac(alg, secret, msg) == "hmac-" \o alg \o "[" \o secret \o "](" \o msg \o ")"

RECURSIVE QsPairs(_)
\* qs.stringify of the pairs: undefined values are skipped, null gives `k=`.
\* The values of this model hold unreserved characters only, which percent
\* encoding leaves as they are.
QsPairs(ps) ==
    IF ps = <<>> THEN ""
    ELSE IF Head(ps)[2].t = "undefined" THEN QsPairs(Tail(ps))
    ELSE LET rest == QsPairs(Tail(ps))
             val  == IF Head(ps)[2].t = "null" THEN "" ELSE Template(Head(ps)[2])
         IN  Head(ps)[1] \o "=" \o val \o (IF rest = "" THEN "" ELSE "&" \o rest)

\* qs.stringify(x): the empty string for anything but an object.
QsStringify(x) == IF x.t = "object" THEN QsPairs(x.v) ELSE ""

-----------------------------------------------------------------------------
(* Gemini: configuration and signing (src/index.ts) *)

GeminiDefaultConfig ==
    Obj(<< <<"rootUrl", Str("https://api.gemini.com")>>,
           <<"timeout", Num(10000)>>,
           <<"version", Str("v1")>> >>)

GeminiDefaultHeaders ==
    Obj(<< <<"Cache-Control", Str("no-cache")>>,
           <<"Content-Length", Num(0)>>,
           <<"Content-Type", Str("text/plain")>>,
           <<"User-Agent", Str("Gemini API Client (gemini-api node package)")>> >>)

GeminiDefaultAgentConfig ==
    Obj(<< <<"baseURL", Get(GeminiDefaultConfig, "rootUrl")>>,
           <<"headers", GeminiDefaultHeaders>>,
           <<"method", Str("GET")>>,
           <<"timeout", Get(GeminiDefaultConfig, "timeout")>> >>)

GeminiPublicAgentConfig == Spread(GeminiDefaultAgentConfig, Undefined)

GeminiPrivateAgentConfig ==
    Spread(GeminiDefaultAgentConfig, Obj(<< <<"method", Str("POST")>> >>))

\* Date.now().toString() for the clock value `now`.
GeminiNonce(now) == Str(ToString(now))

\* The order in which signMessage's object literal lists its own fields after
\* `...postData`.
GeminiBodyFields(path, now) ==
    Obj(<< <<"nonce", GeminiNonce(now)>>, <<"request", Str(path)>> >>)

\* A variant of the body literal that spreads postData last:
\* { nonce, request: path, ...postData }
GeminiSignedBodyDataLast(path, postData, now) ==
    Spread(GeminiBodyFields(path, now), postData)

\* const body = { ...postData, nonce, request: path }
GeminiSignedBody(path, postData, now) ==
    Spread(postData, GeminiBodyFields(path, now))

\* signMessage(path, postData, secret), with Date.now() = now.
GeminiSignMessage(path, postData, secret, now) ==
    LET body    == GeminiSignedBody(path, postData, now)
        payload == Base64(JsonText(body))
        digest  == Hmac("sha384", secret, payload)
    IN  Obj(<< <<"payload", Str(payload)>>, <<"digest", Str(digest)>> >>)

-----------------------------------------------------------------------------
(* Bittrex: configuration and signing (src/unnamed/part_000) *)

BittrexDefaultConfig ==
    Obj(<< <<"rootUrl", Str("https://bittrex.com/api")>>,
           <<"timeout", Num(3000)>>,
           <<"version", Str("v1.1")>> >>)

BittrexDefaultHeaders ==
    Obj(<< <<"Cache-Control", Str("no-cache")>>,
           <<"Content-Type", Str("application/json")>>,
           <<"User-Agent",
             Str("Bittrex API Client (bittrex-cryptoexchange-api node package)")>> >>)

BittrexDefaultAgentConfig ==
    Obj(<< <<"baseURL", Get(BittrexDefaultConfig, "rootUrl")>>,
           <<"headers", BittrexDefaultHeaders>>,
           <<"method", Str("GET")>>,
           <<"timeout", Get(BittrexDefaultConfig, "timeout")>> >>)

BittrexPublicAgentConfig == Spread(BittrexDefaultAgentConfig, Undefined)

BittrexPrivateAgentConfig == Spread(BittrexDefaultAgentConfig, Undefined)

\* signMessage(fullPath, queryParams, secret)
BittrexSignMessage(fullPath, queryParams, secret) ==
    LET uri    == fullPath \o "?" \o QsStringify(queryParams)
        digest == Hmac("sha512", secret, uri)
    IN  Obj(<< <<"fullUrl", Str(uri)>>, <<"digest", Str(digest)>> >>)

-----------------------------------------------------------------------------
(* The request dispatchers.  Each operator is the synchronous part of the     *)
(* async method, up to its first await, for `this.auth = thisAuth` and        *)
(* Date.now() = now.  Its result says how that part ended:                    *)
(*   kind "await"  : axios(request) was invoked and the method awaits it      *)
(*   kind "reject" : the method returned Promise.reject(value)                *)
(*   kind "throw"  : an exception with that value left the method body        *)
(*   kind "return" : the method returned Promise.resolve(value)               *)
(* With an "await" go two locals of the method, kept for the properties:      *)
(* `computed`, the fields the method itself lists in the agentConfig literal, *)
(* and `signed`, the body signMessage built (Gemini).                         *)

Await(request, computed, signed) ==
    [kind |-> "await", request |-> request, value |-> Undefined,
     computed |-> computed, signed |-> signed]

Reject(value) ==
    [kind |-> "reject", request |-> Undefined, value |-> value,
     computed |-> Undefined, signed |-> Undefined]

Throw(value) ==
    [kind |-> "throw", request |-> Undefined, value |-> value,
     computed |-> Undefined, signed |-> Undefined]

Return(value) ==
    [kind |-> "return", request |-> Undefined, value |-> value,
     computed |-> Undefined, signed |-> Undefined]

UnauthenticatedMessage == Str("api keys are required to access private endpoints")

\* A variant of isUpgraded that tests for undefined only: `this.auth !== undefined`.
isUpgradedUnlessUndefined(thisAuth) == Bool(thisAuth # Undefined)

\* isUpgraded(): boolean { return this.auth; }
isUpgraded(thisAuth) == thisAuth

\* Gemini getPublicEndpoint: { ...publicAgentConfig, url: uri }
GeminiPublicComputed(endpoint, queryParams, configOverride) ==
    LET config == Spread(GeminiDefaultConfig, configOverride)
        uri    == Template(Get(config, "version")) \o "/" \o endpoint
                      \o "?" \o QsStringify(queryParams)
    IN  Obj(<< <<"url", Str(uri)>> >>)

GeminiGetPublicEndpoint(endpoint, queryParams, configOverride) ==
    LET computed == GeminiPublicComputed(endpoint, queryParams, configOverride)
    IN  Await(Spread(GeminiPublicAgentConfig, computed), computed, Undefined)

\* const uri = `/${config.version}/${endpoint}` of postToPrivateEndpoint.
GeminiPrivateUri(endpoint, configOverride) ==
    LET config == Spread(GeminiDefaultConfig, configOverride)
    IN  "/" \o Template(Get(config, "version")) \o "/" \o endpoint

\* Gemini postToPrivateEndpoint:
\*   { ...privateAgentConfig, headers, url: uri, data: JSON.stringify(data) }
GeminiPrivateComputed(thisAuth, endpoint, data, configOverride, now) ==
    LET uri           == GeminiPrivateUri(endpoint, configOverride)
        signatureData == GeminiSignMessage(uri, data,
                                           Get(thisAuth, "privateKey").v, now)
        headers       ==
            Spread(Get(GeminiPrivateAgentConfig, "headers"),
                   Obj(<< <<"X-GEMINI-APIKEY", Get(thisAuth, "publicKey")>>,
                          <<"X-GEMINI-PAYLOAD", Get(signatureData, "payload")>>,
                          <<"X-GEMINI-SIGNATURE", Get(signatureData, "digest")>> >>))
    IN  Obj(<< <<"headers", headers>>,
               <<"url", Str(uri)>>,
               <<"data", JSONstringify(data)>> >>)

\* Reading this.auth.privateKey of an undefined or null auth throws a TypeError.
GeminiPostToPrivateEndpoint(thisAuth, endpoint, data, configOverride, now) ==
    IF ~Truthy(isUpgraded(thisAuth)) THEN Reject(UnauthenticatedMessage)
    ELSE IF Nullish(thisAuth) THEN Throw(TypeError)
    ELSE LET computed == GeminiPrivateComputed(thisAuth, endpoint, data,
                                               configOverride, now)
         IN  Await(Spread(GeminiPrivateAgentConfig, computed), computed,
                   GeminiSignedBody(GeminiPrivateUri(endpoint, configOverride),
                                    data, now))

\* Bittrex getPublicEndpoint: { ...publicAgentConfig, url: uri, ...config }
BittrexPublicComputed(endpoint, queryParams, configOverride) ==
    LET config == Spread(BittrexDefaultConfig, configOverride)
        uri    == Template(Get(config, "version")) \o "/" \o endpoint
                      \o "?" \o QsStringify(queryParams)
    IN  Obj(<< <<"url", Str(uri)>> >>)

\* The order in which a Bittrex agentConfig literal lays its parts over the
\* agent's base configuration.
BittrexAgentConfig(base, computed, config) == Spread(Spread(base, computed), config)

BittrexGetPublicEndpoint(endpoint, queryParams, configOverride) ==
    LET config   == Spread(BittrexDefaultConfig, configOverride)
        computed == BittrexPublicComputed(endpoint, queryParams, configOverride)
    IN  Await(BittrexAgentConfig(BittrexPublicAgentConfig, computed, config),
              computed, Undefined)

\* securityParams = { apiKey: this.auth.publicKey, nonce: Date.now() * 1000 }
BittrexSecurityParams(thisAuth, now) ==
    Obj(<< <<"apiKey", Get(thisAuth, "publicKey")>>, <<"nonce", Num(now * 1000)>> >>)

\* const uri = `${config.rootUrl}/${config.version}/${endpoint}`
BittrexPrivateUri(endpoint, configOverride) ==
    LET config == Spread(BittrexDefaultConfig, configOverride)
    IN  Template(Get(config, "rootUrl")) \o "/" \o Template(Get(config, "version"))
            \o "/" \o endpoint

\* A variant of the signing step that keys the digest with the private key the
\* client was first given, whatever auth is stored now.
BittrexSignatureDataStaleKey(thisAuth, endpoint, params, configOverride, now) ==
    LET scrubbedParams == Spread(params, BittrexSecurityParams(thisAuth, now))
    IN  BittrexSignMessage(BittrexPrivateUri(endpoint, configOverride),
                           scrubbedParams, "s1")

\* signMessage(uri, scrubbedParams, this.auth.privateKey) of getPrivateEndpoint.
BittrexSignatureData(thisAuth, endpoint, params, configOverride, now) ==
    LET scrubbedParams == Spread(params, BittrexSecurityParams(thisAuth, now))
    IN  BittrexSignMessage(BittrexPrivateUri(endpoint, configOverride),
                           scrubbedParams, Get(thisAuth, "privateKey").v)

\* The headers object getPrivateEndpoint computes.
BittrexPrivateHeaders(signatureData, config) ==
    LET headersOverride ==
            IF Truthy(Get(config, "headers")) THEN Get(config, "headers") ELSE Null
    IN  Spread(Spread(Get(BittrexPrivateAgentConfig, "headers"),
                      Obj(<< <<"apisign", Get(signatureData, "digest")>> >>)),
               headersOverride)

\* Bittrex getPrivateEndpoint:
\*   { ...privateAgentConfig, headers, url: signatureData.fullUrl, ...config }
BittrexPrivateComputed(thisAuth, endpoint, params, configOverride, now) ==
    LET config        == Spread(BittrexDefaultConfig, configOverride)
        signatureData == BittrexSignatureData(thisAuth, endpoint, params,
                                              configOverride, now)
    IN  Obj(<< <<"headers", BittrexPrivateHeaders(signatureData, config)>>,
               <<"url", Get(signatureData, "fullUrl")>> >>)

\* Reading this.auth.publicKey of an undefined or null auth throws a TypeError.
BittrexGetPrivateEndpoint(thisAuth, endpoint, params, configOverride, now) ==
    IF ~Truthy(isUpgraded(thisAuth)) THEN Reject(UnauthenticatedMessage)
    ELSE IF Nullish(thisAuth) THEN Throw(TypeError)
    ELSE LET config   == Spread(BittrexDefaultConfig, configOverride)
             computed == BittrexPrivateComputed(thisAuth, endpoint, params,
                                                configOverride, now)
         IN  Await(BittrexAgentConfig(BittrexPrivateAgentConfig, computed, config),
                   computed, Undefined)

\* The catch block of both private dispatchers:
\*   err.response.data.error || err.response.data || err.response || err
\* Reading a property of undefined or null throws a TypeError.
RejectionReason(err) ==
    LET response == Get(err, "response")
        data     == Get(response, "data")
        error    == Get(data, "error")
    IN  IF Nullish(response) \/ Nullish(data) THEN Throw(TypeError)
        ELSE IF Truthy(error)    THEN Reject(error)
        ELSE IF Truthy(data)     THEN Reject(data)
        ELSE IF Truthy(response) THEN Reject(response)
        ELSE Reject(err)

\* How a completion of an async method's body reaches the caller: whatever is
\* thrown inside an async function is a rejection of the promise it returned.
AsyncOutcome(c) ==
    CASE c.kind = "return" -> [status |-> "resolved", value |-> c.value]
      [] c.kind = "reject" -> [status |-> "rejected", value |-> c.value]
      [] c.kind = "throw"  -> [status |-> "rejected", value |-> c.value]
      [] c.kind = "await"  -> [status |-> "pending", value |-> Undefined]

-----------------------------------------------------------------------------
(* The typed Bittrex client: a catalog of operations over the raw agent *)

PublicOps ==
    {"getMarkets", "getCurrencies", "getTickerTape", "getMarketSummaries",
     "getMarketSummary", "getOrderBook", "getMarketHistory"}

PrivateOps ==
    {"placeLimitBuy", "placeLimitSell", "cancelOrder", "getOpenOrders",
     "getAccountBalances", "getBalance", "getDepositAddress", "withdrawCrypto",
     "getOrder", "getOrderHistory", "getWithdrawalHistory", "getDepositHistory"}

\* The endpoint each operation passes to the raw agent.
CatalogEndpoint(op) ==
    CASE op = "getMarkets"           -> "public/getmarkets"
      [] op = "getCurrencies"        -> "public/getcurrencies"
      [] op = "getTickerTape"        -> "public/getticker"
      [] op = "getMarketSummaries"   -> "public/getmarketsummaries"
      [] op = "getMarketSummary"     -> "public/getmarketsummary"
      [] op = "getOrderBook"         -> "public/getorderbook"
      [] op = "getMarketHistory"     -> "public/getmarkethistory"
      [] op = "placeLimitBuy"        -> "market/buylimit"
      [] op = "placeLimitSell"       -> "market/selllimit"
      [] op = "cancelOrder"          -> "market/cancel"
      [] op = "getOpenOrders"        -> "market/getopenorders"
      [] op = "getAccountBalances"   -> "account/getbalances"
      [] op = "getBalance"           -> "account/getbalance"
      [] op = "getDepositAddress"    -> "account/getdepositaddress"
      [] op = "withdrawCrypto"       -> "account/withdraw"
      [] op = "getOrder"             -> "account/getorder"
      [] op = "getOrderHistory"      -> "account/getorderhistory"
      [] op = "getWithdrawalHistory" -> "account/getwithdrawalhistory"
      [] op = "getDepositHistory"    -> "account/getdeposithistory"

\* A variant of getOrderBook's shaping that always asks for both sides.
GetOrderBookParamsAlwaysBoth(params) ==
    Spread(params, Obj(<< <<"type", Str("both")>> >>))

\* getOrderBook: { ...params, type: params.type ? params.type : 'both' }
GetOrderBookParams(params) ==
    Spread(params,
           Obj(<< <<"type", IF Truthy(Get(params, "type"))
                            THEN Get(params, "type")
                            ELSE Str("both")>> >>))

\* The params each operation passes to the raw agent for its argument.
CatalogParams(op, arg) ==
    CASE op \in {"getMarkets", "getCurrencies", "getMarketSummaries",
                 "getAccountBalances"}
             -> Null
      [] op \in {"getTickerTape", "getMarketSummary", "getMarketHistory",
                 "getOpenOrders", "getOrderHistory"}
             -> Obj(<< <<"market", arg>> >>)
      [] op = "getOrderBook"
             -> GetOrderBookParams(arg)
      [] op \in {"placeLimitBuy", "placeLimitSell", "withdrawCrypto"}
             -> arg
      [] op \in {"cancelOrder", "getOrder"}
             -> Obj(<< <<"uuid", arg>> >>)
      [] op \in {"getBalance", "getDepositAddress", "getWithdrawalHistory",
                 "getDepositHistory"}
             -> Obj(<< <<"currency", arg>> >>)

-----------------------------------------------------------------------------
(* The inputs the model draws from *)

Auth(publicKey, privateKey) ==
    Obj(<< <<"publicKey", Str(publicKey)>>, <<"privateKey", Str(privateKey)>> >>)

ApiAuths == {Auth("k1", "s1"), Auth("k2", "s2")}

\* upgrade validates nothing: null and undefined are stored like any ApiAuth.
UpgradeArgs == ApiAuths \cup {Undefined, Null}

\* getClient(auth?): the optional constructor argument.
ConstructorAuths == {Undefined, Auth("k1", "s1")}

Overrides ==
    { Obj(<< <<"version", Str("v2")>>,
             <<"headers", Obj(<< <<"X-Trace", Str("t1")>> >>)>> >>),
      Obj(<< <<"url", Str("https://example.org/x")>>, <<"method", Str("POST")>> >>) }

\* A dispatcher's optional configOverride argument.
CallOverrides == {Undefined} \cup Overrides

\* getClient(auth?, configOverride = null) of the typed Bittrex client.
ClientOverrides == {Null} \cup Overrides

GeminiPublicEndpoints == {"pubticker/btcusd"}
GeminiPrivateEndpoints == {"order/new"}
GeminiQueryParams == {Undefined, Obj(<< <<"limit_trades", Num(5)>> >>)}
GeminiPostData ==
    { Undefined,
      Obj(<< <<"symbol", Str("btcusd")>>, <<"amount", Num(5)>> >>),
      Obj(<< <<"nonce", Str("0")>>, <<"symbol", Str("btcusd")>>,
             <<"request", Str("/v1/withdraw")>> >>) }

BittrexPublicEndpoints == {"public/getmarkets"}
BittrexPrivateEndpoints == {"account/getbalance"}
BittrexQueryParams == {Undefined, Obj(<< <<"market", Str("BTC-LTC")>> >>)}
BittrexPrivateParams ==
    { Undefined,
      Obj(<< <<"currency", Str("BTC")>> >>),
      Obj(<< <<"apiKey", Str("k0")>>, <<"currency", Str("BTC")>> >>) }

OrderBookArgs ==
    { Obj(<< <<"market", Str("BTC-LTC")>> >>),
      Obj(<< <<"market", Str("BTC-LTC")>>, <<"type", Str("buy")>> >>),
      Obj(<< <<"type", Str("sell")>>, <<"market", Str("BTC-LTC")>> >>),
      Obj(<< <<"market", Str("BTC-LTC")>>, <<"type", Str("")>> >>) }

\* The arguments the model passes to each catalog operation.
CatalogArgs(op) ==
    CASE op \in {"getMarkets", "getCurrencies", "getMarketSummaries",
                 "getAccountBalances"}
             -> {Undefined}
      [] op \in {"getTickerTape", "getMarketSummary", "getMarketHistory"}
             -> {Str("BTC-LTC")}
      [] op = "getOpenOrders"
             -> {Undefined, Str("BTC-LTC")}
      [] op = "getOrderHistory"
             -> {Str("BTC-LTC")}
      [] op = "getOrderBook"
             -> OrderBookArgs
      [] op \in {"placeLimitBuy", "placeLimitSell"}
             -> {Obj(<< <<"market", Str("BTC-LTC")>>, <<"quantity", Str("1")>>,
                        <<"rate", Str("2")>> >>)}
      [] op = "withdrawCrypto"
             -> {Obj(<< <<"currency", Str("BTC")>>, <<"quantity", Str("1")>>,
                        <<"address", Str("addr1")>> >>)}
      [] op \in {"cancelOrder", "getOrder"}
             -> {Str("id1")}
      [] op \in {"getBalance", "getDepositAddress", "getWithdrawalHistory",
                 "getDepositHistory"}
             -> {Str("BTC")}

\* What axios resolves with.
Responses ==
    { Obj(<< <<"status", Num(200)>>,
             <<"data", Obj(<< <<"success", Bool(TRUE)>> >>)>> >>) }

ErrBodyWithError ==
    Obj(<< <<"message", Str("Request failed with status code 400")>>,
           <<"response", Obj(<< <<"status", Num(400)>>,
                                <<"data", Obj(<< <<"error", Str("X")>> >>)>> >>)>> >>)

ErrBodyWithoutError ==
    Obj(<< <<"message", Str("Request failed with status code 500")>>,
           <<"response", Obj(<< <<"status", Num(500)>>,
                                <<"data", Obj(<< <<"message", Str("down")>> >>)>> >>)>> >>)

ErrNoBody ==
    Obj(<< <<"message", Str("Request failed with status code 502")>>,
           <<"response", Obj(<< <<"status", Num(502)>> >>)>> >>)

ErrNoResponse == Obj(<< <<"message", Str("Network Error")>> >>)

\* What axios rejects with.
TransportErrors == {ErrBodyWithError, ErrBodyWithoutError, ErrNoBody, ErrNoResponse}

-----------------------------------------------------------------------------
(* State *)

VARIABLES
    exchange,        \* which client this behaviour follows: "gemini" or "bittrex"
    clientOverride,  \* the typed Bittrex client's configOverride (closure variable)
    auth,            \* the client's `auth` field
    lastUpgradeArg,  \* history: the argument of the latest upgrade call
    now,             \* Date.now()
    call             \* the endpoint call being followed, with its outcome

vars == <<exchange, clientOverride, auth, lastUpgradeArg, now, call>>

NeverUpgraded == [t |-> "never"]
NoCall == [status |-> "idle"]

Init ==
    /\ exchange \in {"gemini", "bittrex"}
    /\ clientOverride \in (IF exchange = "bittrex" THEN ClientOverrides ELSE {Null})
    /\ auth \in ConstructorAuths
    /\ lastUpgradeArg = NeverUpgraded
    /\ now = 1
    /\ call = NoCall

\* The clock moves between any two steps.
Tick ==
    /\ now < MaxClock
    /\ now' = now + 1
    /\ UNCHANGED <<exchange, clientOverride, auth, lastUpgradeArg, call>>

\* A variant of the assignment in upgrade that loses the new credentials.
StoreAuthDropped(newAuth) == Undefined

\* upgrade(newAuth): void { this.auth = newAuth; }
StoreAuth(newAuth) == newAuth

upgrade(newAuth) ==
    /\ auth' = StoreAuth(newAuth)
    /\ lastUpgradeArg' = newAuth
    /\ UNCHANGED <<exchange, clientOverride, now, call>>

\* The typed client's upgrade: this.rawAgent.upgrade(newAuth).
clientUpgrade(newAuth) ==
    /\ exchange = "bittrex"
    /\ upgrade(newAuth)

\* An endpoint method is invoked and runs to its first await (or to its end).
\* `c` is how its synchronous part ended.
Invoke(op, private, arg, endpoint, params, override, c) ==
    /\ call.status # "pending"
    /\ call' = [op            |-> op,
                private       |-> private,
                arg           |-> arg,
                endpoint      |-> endpoint,
                params        |-> params,
                override      |-> override,
                authAtCall    |-> auth,
                upgradeAtCall |-> lastUpgradeArg,
                now           |-> now,
                status        |-> AsyncOutcome(c).status,
                sent          |-> IF c.kind = "await" THEN 1 ELSE 0,
                request       |-> c.request,
                computed      |-> c.computed,
                signed        |-> c.signed,
                err           |-> Undefined,
                value         |-> AsyncOutcome(c).value]
    /\ UNCHANGED <<exchange, clientOverride, auth, lastUpgradeArg, now>>

Gemini_getPublicEndpoint(endpoint, queryParams, configOverride) ==
    /\ exchange = "gemini"
    /\ Invoke("getPublicEndpoint", FALSE, Undefined, endpoint, queryParams,
              configOverride,
              GeminiGetPublicEndpoint(endpoint, queryParams, configOverride))

Gemini_postToPrivateEndpoint(endpoint, data, configOverride) ==
    /\ exchange = "gemini"
    /\ Invoke("postToPrivateEndpoint", TRUE, Undefined, endpoint, data,
              configOverride,
              GeminiPostToPrivateEndpoint(auth, endpoint, data, configOverride, now))

Bittrex_getPublicEndpoint(endpoint, queryParams, configOverride) ==
    /\ exchange = "bittrex"
    /\ Invoke("getPublicEndpoint", FALSE, Undefined, endpoint, queryParams,
              configOverride,
              BittrexGetPublicEndpoint(endpoint, queryParams, configOverride))

Bittrex_getPrivateEndpoint(endpoint, params, configOverride) ==
    /\ exchange = "bittrex"
    /\ Invoke("getPrivateEndpoint", TRUE, Undefined, endpoint, params,
              configOverride,
              BittrexGetPrivateEndpoint(auth, endpoint, params, configOverride, now))

\* A public operation of the typed client:
\*   return this.rawAgent.getPublicEndpoint(endpoint, params, configOverride)
Bittrex_publicOperation(op, arg) ==
    /\ exchange = "bittrex"
    /\ Invoke(op, FALSE, arg, CatalogEndpoint(op), CatalogParams(op, arg),
              clientOverride,
              BittrexGetPublicEndpoint(CatalogEndpoint(op), CatalogParams(op, arg),
                                       clientOverride))

\* A private operation of the typed client:
\*   return this.rawAgent.getPrivateEndpoint(endpoint, params, configOverride)
Bittrex_privateOperation(op, arg) ==
    /\ exchange = "bittrex"
    /\ Invoke(op, TRUE, arg, CatalogEndpoint(op), CatalogParams(op, arg),
              clientOverride,
              BittrexGetPrivateEndpoint(auth, CatalogEndpoint(op),
                                        CatalogParams(op, arg), clientOverride, now))

\* The awaited axios promise resolves: return Promise.resolve(response).
AfterResponse(c, response) ==
    [c EXCEPT !.status = AsyncOutcome(Return(response)).status,
              !.value  = AsyncOutcome(Return(response)).value]

AxiosResolves(response) ==
    /\ call.status = "pending"
    /\ call' = AfterResponse(call, response)
    /\ UNCHANGED <<exchange, clientOverride, auth, lastUpgradeArg, now>>

\* A variant of the failure path that invokes the transport once more before
\* giving up.
AfterFailureRetry(c, err) ==
    IF c.sent < 2
    THEN [c EXCEPT !.err = err, !.sent = @ + 1]
    ELSE [c EXCEPT !.err = err, !.status = "rejected", !.value = err]

\* The awaited axios promise rejects with err.  A private dispatcher runs its
\* catch block; a public dispatcher has none, so err leaves the method body.
AfterFailure(c, err) ==
    LET done == IF c.private THEN RejectionReason(err) ELSE Throw(err)
    IN  [c EXCEPT !.err    = err,
                  !.status = AsyncOutcome(done).status,
                  !.value  = AsyncOutcome(done).value]

AxiosRejects(err) ==
    /\ call.status = "pending"
    /\ call' = AfterFailure(call, err)
    /\ UNCHANGED <<exchange, clientOverride, auth, lastUpgradeArg, now>>

Next ==
    \/ Tick
    \/ \E a \in UpgradeArgs : upgrade(a)
    \/ \E a \in UpgradeArgs : clientUpgrade(a)
    \/ \E e \in GeminiPublicEndpoints, q \in GeminiQueryParams, o \in CallOverrides :
          Gemini_getPublicEndpoint(e, q, o)
    \/ \E e \in GeminiPrivateEndpoints, d \in GeminiPostData, o \in CallOverrides :
          Gemini_postToPrivateEndpoint(e, d, o)
    \/ \E e \in BittrexPublicEndpoints, q \in BittrexQueryParams, o \in CallOverrides :
          Bittrex_getPublicEndpoint(e, q, o)
    \/ \E e \in BittrexPrivateEndpoints, p \in BittrexPrivateParams, o \in CallOverrides :
          Bittrex_getPrivateEndpoint(e, p, o)
    \/ \E op \in PublicOps : \E a \in CatalogArgs(op) : Bittrex_publicOperation(op, a)
    \/ \E op \in PrivateOps : \E a \in CatalogArgs(op) : Bittrex_privateOperation(op, a)
    \/ \E r \in Responses : AxiosResolves(r)
    \/ \E e \in TransportErrors : AxiosRejects(e)

Spec == Init /\ [][Next]_vars

-----------------------------------------------------------------------------
(* Properties *)

\* The client is in the upgraded state: isUpgraded() is truthy.
Upgraded == Truthy(isUpgraded(auth))

\* C1: a private endpoint call (Gemini postToPrivateEndpoint, Bittrex
\* getPrivateEndpoint, every private operation of the typed catalog) made while
\* the client holds no ApiAuth is rejected with the fixed message
\* 'api keys are required to access private endpoints' and never reaches the
\* transport.
C1_UnauthenticatedPrivateCallFailsFast ==
    (call.status # "idle" /\ call.private /\ call.authAtCall \notin ApiAuths)
        => /\ call.status = "rejected"
           /\ call.value = Str("api keys are required to access private endpoints")
           /\ call.sent = 0
           /\ call.request = Undefined

\* A private operation of the typed catalog was called on a client that was
\* constructed without credentials and never upgraded.
C1_Witness ==
    /\ call.status = "rejected"
    /\ call.op \in PrivateOps
    /\ call.authAtCall = Undefined
    /\ call.upgradeAtCall = NeverUpgraded

\* C2 (as claimed): isUpgraded() returns the boolean false before any upgrade
\* call, the boolean true after any upgrade call, and in every state the boolean
\* true exactly when an ApiAuth is stored.
C2_IsUpgradedIsTheBooleanOfStoredAuth ==
    /\ isUpgraded(auth) \in {Bool(TRUE), Bool(FALSE)}
    /\ isUpgraded(auth) = Bool(TRUE) <=> auth \in ApiAuths
    /\ lastUpgradeArg = NeverUpgraded => isUpgraded(auth) = Bool(FALSE)
    /\ lastUpgradeArg # NeverUpgraded => isUpgraded(auth) = Bool(TRUE)

\* C3 (as claimed): a client that is in the upgraded state is never again in the
\* unupgraded state, whatever upgrade calls and endpoint calls follow.
C3_OnceUpgradedAlwaysUpgraded == [][Upgraded => Upgraded']_vars

\* C3 (amended): the client leaves the upgraded state only by an upgrade call
\* whose argument is null or undefined, which is stored like any other; every
\* endpoint call, every transport answer and every upgrade with an ApiAuth
\* leaves an upgraded client upgraded.
C3_UpgradedUntilUpgradeWithoutAuth ==
    [][(Upgraded /\ ~Upgraded')
          => /\ lastUpgradeArg' \in {Undefined, Null}
             /\ auth' = lastUpgradeArg'
             /\ call' = call]_vars

\* A call was made by an upgraded client, the client was then upgraded with
\* another ApiAuth, the call failed at the transport, and the client is upgraded.
C3_Witness ==
    /\ call.status = "rejected"
    /\ call.sent = 1
    /\ call.authAtCall \in ApiAuths
    /\ lastUpgradeArg \in ApiAuths
    /\ lastUpgradeArg # call.authAtCall
    /\ Upgraded

\* C4 (as claimed): when the transport invocation of a private call fails with
\* err, the call is rejected with the first defined value among
\* err.response.data.error, err.response.data, err.response and err, a missing
\* link of the chain counting as undefined.
C4_RejectsWithFirstDefinedValue ==
    (call.status # "idle" /\ call.private /\ call.err # Undefined)
        => LET response == Get(call.err, "response")
               data     == Get(response, "data")
               error    == Get(data, "error")
           IN  /\ call.status = "rejected"
               /\ call.value = IF error # Undefined THEN error
                               ELSE IF data # Undefined THEN data
                               ELSE IF response # Undefined THEN response
                               ELSE call.err

\* C5 (as claimed): every Bittrex private call of an upgraded client, under any
\* configOverride, hands the transport a GET whose url is the signed full URI
\* rootUrl/version/endpoint?params&apiKey&nonce and whose headers carry apisign,
\* the HMAC-SHA512 of exactly that url under the stored private key.
C5_BittrexPrivateRequestIsSignedGet ==
    (call.status # "idle" /\ exchange = "bittrex" /\ call.private /\ call.sent > 0)
        => LET config == Spread(BittrexDefaultConfig, call.override)
               query  == Spread(call.params,
                                Obj(<< <<"apiKey", Get(call.authAtCall, "publicKey")>>,
                                       <<"nonce", Num(call.now * 1000)>> >>))
               url    == Get(config, "rootUrl").v \o "/" \o Get(config, "version").v
                             \o "/" \o call.endpoint \o "?" \o QsStringify(query)
           IN  /\ Get(call.request, "method") = Str("GET")
               /\ Get(call.request, "url") = Str(url)
               /\ Get(Get(call.request, "headers"), "apisign")
                      = Str(Hmac("sha512", Get(call.authAtCall, "privateKey").v, url))

\* C6 (as claimed): a private call that follows upgrade(newAuth) sends a request
\* that carries newAuth.publicKey as its API key (Bittrex: the apiKey query
\* parameter of the url; Gemini: the X-GEMINI-APIKEY header) and a signature
\* keyed by newAuth.privateKey (Bittrex: apisign over the url; Gemini:
\* X-GEMINI-SIGNATURE over X-GEMINI-PAYLOAD).
C6_PrivateCallUsesNewAuth ==
    (call.status # "idle" /\ call.private /\ call.sent > 0
         /\ call.upgradeAtCall \in ApiAuths)
        => LET newAuth == call.upgradeAtCall
               headers == Get(call.request, "headers")
           IN  IF exchange = "gemini"
               THEN /\ Get(headers, "X-GEMINI-APIKEY") = Get(newAuth, "publicKey")
                    /\ Get(headers, "X-GEMINI-PAYLOAD").t = "string"
                    /\ Get(headers, "X-GEMINI-SIGNATURE")
                           = Str(Hmac("sha384", Get(newAuth, "privateKey").v,
                                      Get(headers, "X-GEMINI-PAYLOAD").v))
               ELSE LET query ==
                            Spread(call.params,
                                   Obj(<< <<"apiKey", Get(newAuth, "publicKey")>>,
                                          <<"nonce", Num(call.now * 1000)>> >>))
                        url   == BittrexPrivateUri(call.endpoint, call.override)
                                     \o "?" \o QsStringify(query)
                    IN  /\ Get(call.request, "url") = Str(url)
                        /\ Get(headers, "apisign")
                               = Str(Hmac("sha512", Get(newAuth, "privateKey").v, url))

\* C7 (as claimed): whenever the configOverride and the per-call computation
\* both define url, headers or data, the request handed to the transport holds
\* the per-call computed value.
C7_ComputedFieldsWinOverOverride ==
    (call.status # "idle" /\ call.sent > 0)
        => \A f \in {"url", "headers", "data"} :
               (Has(call.override, f) /\ Has(call.computed, f))
                   => Get(call.request, f) = Get(call.computed, f)

C9_OrderBookTypeForwardedWhenSupplied ==
    (call.status # "idle" /\ call.op = "getOrderBook")
        => /\ call.endpoint = "public/getorderbook"
           /\ ~Has(call.arg, "type") => Get(call.params, "type") = Str("both")
           /\ Has(call.arg, "type") => Get(call.params, "type") = Get(call.arg, "type")
           /\ \A k \in KeySet(call.arg) \ {"type"} :
                  Get(call.params, k) = Get(call.arg, k)

\* C9 (amended): getOrderBook forwards type 'both' when params has no type or
\* an empty one, forwards a non-empty type unchanged, and forwards every other
\* field of params unchanged, to endpoint 'public/getorderbook'.
C9_OrderBookTypeDefaultsWhenFalsy ==
    (call.status # "idle" /\ call.op = "getOrderBook")
        => /\ call.endpoint = "public/getorderbook"
           /\ ~call.private
           /\ Get(call.arg, "type") \in {Undefined, Str("")}
                  => Get(call.params, "type") = Str("both")
           /\ Get(call.arg, "type") \notin {Undefined, Str("")}
                  => Get(call.params, "type") = Get(call.arg, "type")
           /\ KeySet(call.params) = KeySet(call.arg) \cup {"type"}
           /\ \A k \in KeySet(call.arg) \ {"type"} :
                  Get(call.params, k) = Get(call.arg, k)

\* getOrderBook was called with an empty type and forwarded 'both'.
C9_Witness ==
    /\ call.status # "idle"
    /\ call.op = "getOrderBook"
    /\ Get(call.arg, "type") = Str("")
    /\ Get(call.params, "type") = Str("both")

\* C10: the body Gemini's signMessage signs has request = path and nonce = the
\* nonce generated for this call, also when postData has its own nonce or
\* request key; every other postData field is kept unchanged and nothing else
\* is added; the payload is the base64 of that body's JSON text and the digest
\* is the HMAC-SHA384 of the payload under the secret.
C10_GeminiSignedBodyOverridesNonceAndRequest ==
    (call.status # "idle" /\ exchange = "gemini" /\ call.private /\ call.sent > 0)
        => LET postData == call.params
               body     == call.signed
               headers  == Get(call.request, "headers")
           IN  /\ Get(body, "request") = Get(call.request, "url")
               /\ Get(body, "request").t = "string"
               /\ Get(body, "nonce") = Str(ToString(call.now))
               /\ KeySet(body) = KeySet(postData) \cup {"nonce", "request"}
               /\ \A k \in KeySet(postData) \ {"nonce", "request"} :
                      Get(body, k) = Get(postData, k)
               /\ Get(headers, "X-GEMINI-PAYLOAD") = Str(Base64(JsonText(body)))
               /\ Get(headers, "X-GEMINI-SIGNATURE")
                      = Str(Hmac("sha384", Get(call.authAtCall, "privateKey").v,
                                 Base64(JsonText(body))))

\* A Gemini private call signed a postData that has its own nonce and request.
C10_Witness ==
    /\ call.status # "idle"
    /\ exchange = "gemini"
    /\ call.private
    /\ call.sent = 1
    /\ Has(call.params, "nonce")
    /\ Has(call.params, "request")
    /\ Get(call.params, "nonce") # Get(call.signed, "nonce")
    /\ Get(call.params, "request") # Get(call.signed, "request")

\* C11: however upgrade calls interleave with a private call in flight, the
\* API key and the signature of the call's request come from one ApiAuth, the
\* one stored when the call was invoked (a configOverride may displace the
\* signed url or the headers, never re-key them), and no later step, an upgrade
\* included, changes the request of a call in flight.
C11_RequestKeysFromAuthAtInvocation ==
    /\ [](  (call.status # "idle" /\ call.private /\ call.sent > 0)
         => LET used    == call.authAtCall
                headers == Get(call.request, "headers")
            IN  /\ used \in ApiAuths
                /\ IF exchange = "gemini"
                   THEN /\ Get(headers, "X-GEMINI-APIKEY") = Get(used, "publicKey")
                        /\ Get(headers, "X-GEMINI-SIGNATURE")
                               = Str(Hmac("sha384", Get(used, "privateKey").v,
                                          Get(headers, "X-GEMINI-PAYLOAD").v))
                   ELSE LET query ==
                                Spread(call.params,
                                       Obj(<< <<"apiKey", Get(used, "publicKey")>>,
                                              <<"nonce", Num(call.now * 1000)>> >>))
                            url   == BittrexPrivateUri(call.endpoint, call.override)
                                         \o "?" \o QsStringify(query)
                            sign  == Str(Hmac("sha512", Get(used, "privateKey").v, url))
                        IN  /\ Get(call.computed, "url") = Str(url)
                            /\ Get(Get(call.computed, "headers"), "apisign") = sign
                            /\ \/ Get(call.request, "url") = Str(url)
                               \/ /\ Has(call.override, "url")
                                  /\ Get(call.request, "url") = Get(call.override, "url")
                            /\ \/ Get(headers, "apisign") = sign
                               \/ /\ Has(call.override, "headers")
                                  /\ headers = Get(call.override, "headers") )
    /\ [][call.status = "pending"
             => /\ call'.request = call.request
                /\ call'.authAtCall = call.authAtCall
                /\ call'.sent = call.sent]_vars

\* A private call is in flight and the client has since been upgraded with
\* another ApiAuth.
C11_Witness ==
    /\ call.status = "pending"
    /\ call.private
    /\ call.sent = 1
    /\ call.authAtCall \in ApiAuths
    /\ auth \in ApiAuths
    /\ auth # call.authAtCall
    /\ lastUpgradeArg = auth
    /\ call.upgradeAtCall # lastUpgradeArg

====
